---- MODULE Spec2Model ----
(***************************************************************************)
(* Model of src/pages/loginPage.ts: the LoginPage page object.             *)
(*                                                                         *)
(* The page object holds no mutable state of its own.  What is modelled is *)
(* the control state of one method invocation at a time (every `await` is  *)
(* a suspension point, so every awaited session call is one step), the     *)
(* sequence of calls the browser session has seen during that invocation,  *)
(* the warnings handed to the logger, and how the invocation ended.  The   *)
(* browser is the environment: each awaited call resolves or rejects, and  *)
(* the model draws that outcome nondeterministically.                      *)
(***************************************************************************)
EXTENDS Naturals, Sequences, FiniteSets

VARIABLES
    constructed,  \* the constructor has run
    op,           \* the method invoked last ("none" before the first one)
    pc,           \* index of the next statement of op's body
    popup,        \* position inside maybeCloseWelcomePopup: off/check/then/catch
    todo,         \* statements left in the `if (isVisible)` branch
    caught,       \* the error bound by `catch (error)`
    args,         \* the arguments of the invocation
    trace,        \* session calls issued by the current invocation, in order
    log,          \* logger.warn calls made by the current invocation
    result,       \* how the invocation ended: new/pending/returned/threw
    prev          \* the login invocation that immediately preceded this one

vars == <<constructed, op, pc, popup, todo, caught, args, trace, log, result, prev>>

----------------------------------------------------------------------------
(* Values *)

\* TIMEOUTS.MEDIUM is imported from the constants module; only its identity
\* matters here.  An expectation without a timeout option uses the library's
\* default.
MEDIUM == "TIMEOUTS.MEDIUM"
DefaultTimeout == "default"
NoOption == "none"

NoError == [name |-> "", message |-> ""]

\* Errors the session layer can reject an awaited call with.
Errors ==
    { [name |-> "TimeoutError", message |-> "Timeout exceeded"],
      [name |-> "Error", message |-> "Target closed"] }

\* Inputs of login(email, password).
Emails == {"bad@example.com", "user@example.com"}
Passwords == {"wrongpass"}
NoArgs == [email |-> "", password |-> ""]

Resolved(v) == [ok |-> TRUE, value |-> v, error |-> NoError]
Rejected(e) == [ok |-> FALSE, value |-> "", error |-> e]

Returned == [status |-> "returned", error |-> NoError]
Threw(e) == [status |-> "threw", error |-> e]
Pending == [status |-> "pending", error |-> NoError]
New == [status |-> "new", error |-> NoError]

NoPrev == [valid |-> FALSE, trace |-> <<>>, result |-> New, args |-> NoArgs]

----------------------------------------------------------------------------
(* The code *)

\* The locators bound by the constructor.
Locators ==
    [ loginTab            |-> [by |-> "role", role |-> "tab", name |-> "Log in"],
      emailInput          |-> [by |-> "role", role |-> "textbox", name |-> "Email"],
      passwordInput       |-> [by |-> "role", role |-> "textbox", name |-> "Password"],
      loginButton         |-> [by |-> "role", role |-> "button", name |-> "Log in"],
      errorMessage        |-> [by |-> "text", role |-> "", name |-> "ERROR_MESSAGES.INVALID_LOGIN"],
      startShoppingButton |-> [by |-> "role", role |-> "button", name |-> "Start Shopping"] ]

Stmt(kind, target, opt, value) ==
    [kind |-> kind, target |-> target, opt |-> opt, value |-> value]

\* Faulty variant of ConstructorBody: the constructor navigates.
ConstructorBodyNavigates == << Stmt("goto", "/login", "load", "") >>

\* Session calls awaited by the constructor: getByRole/getByText only build
\* locator descriptors, so there are none.
ConstructorBody == << >>

\* goto(): page.goto("/login") with the default waitUntil.
GotoBody == << Stmt("goto", "/login", "load", "") >>

\* maybeCloseWelcomePopup: the visibility check that opens the try block.
PopupCheck == Stmt("isVisible", "startShoppingButton", NoOption, "")

\* Faulty variant of PopupBranch: the click is not guarded by the check.
PopupBranchUnguarded(isVisible) ==
    << Stmt("click", "startShoppingButton", NoOption, ""),
       Stmt("toBeHidden", "startShoppingButton", MEDIUM, "") >>

\* maybeCloseWelcomePopup: what `if (isVisible) { ... }` executes.
PopupBranch(isVisible) ==
    IF isVisible
    THEN << Stmt("click", "startShoppingButton", NoOption, ""),
            Stmt("toBeHidden", "startShoppingButton", MEDIUM, "") >>
    ELSE << >>

WarnEntry(e) ==
    [level |-> "warn", msg |-> "Welcome popup handling failed", error |-> e.message]

\* Faulty variant of PopupOnError: the catch block logs and rethrows.
PopupOnErrorRethrows(e) == [log |-> << WarnEntry(e) >>, rethrow |-> TRUE]

\* Faulty variant of PopupOnError: the catch block logs a fixed text, twice.
PopupOnErrorVague(e) ==
    [log |-> << WarnEntry([name |-> "", message |-> "unknown"]),
                WarnEntry([name |-> "", message |-> "unknown"]) >>,
     rethrow |-> FALSE]

\* maybeCloseWelcomePopup: the catch block.  Every error the session layer
\* raises is an Error instance, so the payload is error.message.
PopupOnError(e) == [log |-> << WarnEntry(e) >>, rethrow |-> FALSE]

CallPopup == Stmt("call", "maybeCloseWelcomePopup", NoOption, "")

\* Faulty variant of LoginBody: the password wait is given the MEDIUM timeout.
LoginBodyUnifiedTimeouts(email, password) ==
    << Stmt("goto", "/login", "domcontentloaded", ""),
       CallPopup,
       Stmt("toBeVisible", "loginTab", MEDIUM, ""),
       Stmt("click", "loginTab", NoOption, ""),
       Stmt("toBeVisible", "emailInput", MEDIUM, ""),
       Stmt("toBeVisible", "passwordInput", MEDIUM, ""),
       Stmt("fill", "emailInput", NoOption, email),
       Stmt("fill", "passwordInput", NoOption, password),
       Stmt("click", "loginButton", NoOption, "") >>

\* Faulty variant of LoginBody: the two fills are swapped.
LoginBodyReordered(email, password) ==
    << Stmt("goto", "/login", "domcontentloaded", ""),
       CallPopup,
       Stmt("toBeVisible", "loginTab", MEDIUM, ""),
       Stmt("click", "loginTab", NoOption, ""),
       Stmt("toBeVisible", "emailInput", MEDIUM, ""),
       Stmt("toBeVisible", "passwordInput", DefaultTimeout, ""),
       Stmt("fill", "passwordInput", NoOption, password),
       Stmt("fill", "emailInput", NoOption, email),
       Stmt("click", "loginButton", NoOption, "") >>

\* login(email, password), statement by statement.
LoginBody(email, password) ==
    << Stmt("goto", "/login", "domcontentloaded", ""),
       CallPopup,
       Stmt("toBeVisible", "loginTab", MEDIUM, ""),
       Stmt("click", "loginTab", NoOption, ""),
       Stmt("toBeVisible", "emailInput", MEDIUM, ""),
       Stmt("toBeVisible", "passwordInput", DefaultTimeout, ""),
       Stmt("fill", "emailInput", NoOption, email),
       Stmt("fill", "passwordInput", NoOption, password),
       Stmt("click", "loginButton", NoOption, "") >>

\* expectErrorVisible().
ExpectErrorVisibleBody == << Stmt("toBeVisible", "errorMessage", MEDIUM, "") >>

\* Faulty variant of ExpectStillOnLoginPageBody: the fields are checked before
\* the tab.
ExpectStillOnLoginPageBodyFieldsFirst ==
    << Stmt("toBeVisible", "emailInput", DefaultTimeout, ""),
       Stmt("toBeVisible", "passwordInput", DefaultTimeout, ""),
       Stmt("toBeVisible", "loginTab", MEDIUM, "") >>

\* expectStillOnLoginPage().
ExpectStillOnLoginPageBody ==
    << Stmt("toBeVisible", "loginTab", MEDIUM, ""),
       Stmt("toBeVisible", "emailInput", DefaultTimeout, ""),
       Stmt("toBeVisible", "passwordInput", DefaultTimeout, "") >>

Body(m, a) ==
    CASE m = "goto" -> GotoBody
      [] m = "login" -> LoginBody(a.email, a.password)
      [] m = "expectErrorVisible" -> ExpectErrorVisibleBody
      [] m = "expectStillOnLoginPage" -> ExpectStillOnLoginPageBody
      [] OTHER -> << >>

\* Faulty variant of Await: the rejection of an awaited call is dropped and the
\* method goes on (a floating promise).
AwaitDropsRejection(at, out) == [pc |-> at + 1, raise |-> FALSE]

\* Faulty variant of Await: a rejected call is issued again.
AwaitRetries(at, out) == [pc |-> IF out.ok THEN at + 1 ELSE at, raise |-> FALSE]

\* `await` outside any try block: a rejection is thrown to the caller, a
\* resolution moves on to the next statement.
Await(at, out) ==
    IF out.ok THEN [pc |-> at + 1, raise |-> FALSE]
              ELSE [pc |-> at, raise |-> TRUE]

\* What the session can answer to a call.
Outcomes(stmt) ==
    (IF stmt.kind = "isVisible"
     THEN {Resolved("true"), Resolved("false")}
     ELSE {Resolved("void")})
    \cup {Rejected(e) : e \in Errors}

\* A statement acts on the page itself or on a locator the constructor bound.
Resolvable(stmt) == stmt.kind = "goto" \/ stmt.target \in DOMAIN Locators

Issued(stmt, out) ==
    [kind |-> stmt.kind, target |-> stmt.target, opt |-> stmt.opt,
     value |-> stmt.value, out |-> out]

----------------------------------------------------------------------------
(* State machine *)

Init ==
    /\ constructed = FALSE
    /\ op = "none"
    /\ pc = 0
    /\ popup = "off"
    /\ todo = << >>
    /\ caught = NoError
    /\ args = NoArgs
    /\ trace = << >>
    /\ log = << >>
    /\ result = New
    /\ prev = NoPrev

\* new LoginPage(page)
Construct ==
    /\ ~constructed
    /\ constructed' = TRUE
    /\ trace' = [i \in 1..Len(ConstructorBody) |->
                    Issued(ConstructorBody[i], Resolved("void"))]
    /\ UNCHANGED <<op, pc, popup, todo, caught, args, log, result, prev>>

Idle == constructed /\ result.status # "pending"

\* The test calls method m: a fresh invocation.
Invoke(m, a) ==
    /\ Idle
    /\ op' = m
    /\ pc' = 1
    /\ args' = a
    /\ trace' = << >>
    /\ log' = << >>
    /\ result' = Pending
    /\ caught' = NoError
    /\ todo' = << >>
    /\ prev' = IF op = "login"
               THEN [valid |-> TRUE, trace |-> trace, result |-> result, args |-> args]
               ELSE NoPrev
    /\ UNCHANGED constructed

CallGoto == Invoke("goto", NoArgs) /\ popup' = "off"

CallMaybeCloseWelcomePopup ==
    Invoke("maybeCloseWelcomePopup", NoArgs) /\ popup' = "check"

CallLogin(email, password) ==
    Invoke("login", [email |-> email, password |-> password]) /\ popup' = "off"

CallExpectErrorVisible == Invoke("expectErrorVisible", NoArgs) /\ popup' = "off"

CallExpectStillOnLoginPage ==
    Invoke("expectStillOnLoginPage", NoArgs) /\ popup' = "off"

Running == result.status = "pending" /\ popup = "off"

\* One awaited session call of goto, login, expectErrorVisible or
\* expectStillOnLoginPage.
ExecStmt ==
    /\ Running
    /\ pc <= Len(Body(op, args))
    /\ LET stmt == Body(op, args)[pc] IN
        /\ stmt.kind # "call"
        /\ Resolvable(stmt)
        /\ \E out \in Outcomes(stmt) :
            LET a == Await(pc, out) IN
                /\ trace' = Append(trace, Issued(stmt, out))
                /\ pc' = a.pc
                /\ result' = IF a.raise THEN Threw(out.error) ELSE result
    /\ UNCHANGED <<constructed, op, popup, todo, caught, args, log, prev>>

\* login: await this.maybeCloseWelcomePopup()
LoginCallPopup ==
    /\ Running
    /\ pc <= Len(Body(op, args))
    /\ Body(op, args)[pc].kind = "call"
    /\ popup' = "check"
    /\ UNCHANGED <<constructed, op, pc, todo, caught, args, trace, log, result, prev>>

\* The method body is exhausted: the promise resolves.
Return ==
    /\ Running
    /\ op # "maybeCloseWelcomePopup"
    /\ pc > Len(Body(op, args))
    /\ result' = Returned
    /\ UNCHANGED <<constructed, op, pc, popup, todo, caught, args, trace, log, prev>>

\* maybeCloseWelcomePopup: const isVisible = await startShoppingButton.isVisible()
PopupIsVisible ==
    /\ result.status = "pending"
    /\ popup = "check"
    /\ Resolvable(PopupCheck)
    /\ \E out \in Outcomes(PopupCheck) :
        /\ trace' = Append(trace, Issued(PopupCheck, out))
        /\ IF out.ok
           THEN /\ popup' = "then"
                /\ todo' = PopupBranch(out.value = "true")
                /\ caught' = caught
           ELSE /\ popup' = "catch"
                /\ todo' = << >>
                /\ caught' = out.error
    /\ UNCHANGED <<constructed, op, pc, args, log, result, prev>>

\* maybeCloseWelcomePopup: one awaited call inside `if (isVisible)`.
PopupThenStep ==
    /\ result.status = "pending"
    /\ popup = "then"
    /\ todo # << >>
    /\ Resolvable(Head(todo))
    /\ \E out \in Outcomes(Head(todo)) :
        /\ trace' = Append(trace, Issued(Head(todo), out))
        /\ IF out.ok
           THEN /\ popup' = "then"
                /\ todo' = Tail(todo)
                /\ caught' = caught
           ELSE /\ popup' = "catch"
                /\ todo' = << >>
                /\ caught' = out.error
    /\ UNCHANGED <<constructed, op, pc, args, log, result, prev>>

\* maybeCloseWelcomePopup: the catch block.
PopupCatch ==
    /\ result.status = "pending"
    /\ popup = "catch"
    /\ LET h == PopupOnError(caught) IN
        /\ log' = log \o h.log
        /\ IF h.rethrow
           THEN /\ popup' = "off"
                /\ result' = Threw(caught)
           ELSE /\ popup' = "then"
                /\ result' = result
    /\ caught' = NoError
    /\ UNCHANGED <<constructed, op, pc, todo, args, trace, prev>>

\* maybeCloseWelcomePopup returns: to login, or to the test.
PopupReturn ==
    /\ result.status = "pending"
    /\ popup = "then"
    /\ todo = << >>
    /\ popup' = "off"
    /\ IF op = "login"
       THEN /\ pc' = pc + 1
            /\ result' = result
       ELSE /\ pc' = pc
            /\ result' = Returned
    /\ UNCHANGED <<constructed, op, todo, caught, args, trace, log, prev>>

Next ==
    \/ Construct
    \/ CallGoto
    \/ CallMaybeCloseWelcomePopup
    \/ \E email \in Emails, password \in Passwords : CallLogin(email, password)
    \/ CallExpectErrorVisible
    \/ CallExpectStillOnLoginPage
    \/ ExecStmt
    \/ LoginCallPopup
    \/ Return
    \/ PopupIsVisible
    \/ PopupThenStep
    \/ PopupCatch
    \/ PopupReturn

Spec == Init /\ [][Next]_vars

----------------------------------------------------------------------------
(* Properties *)

Last(s) == s[Len(s)]

OnPopupControl(t) == t.target = "startShoppingButton"
NotOnPopupControl(t) == ~OnPopupControl(t)

\* A session call without its outcome.
Call(t) == [kind |-> t.kind, target |-> t.target, opt |-> t.opt, value |-> t.value]
Calls(tr) == [i \in 1..Len(tr) |-> Call(tr[i])]
Answers(tr) == [i \in 1..Len(tr) |-> tr[i].out]

IsCall(t, kind, target) == t.kind = kind /\ t.target = target

PropagatingMethods == {"goto", "login", "expectErrorVisible", "expectStillOnLoginPage"}

\* C1: maybeCloseWelcomePopup never raises to its caller.  Called on its own
\* it never ends by throwing, whatever the check, the click or the
\* wait-until-hidden did; called from login, an error login throws is never
\* the error of a call on the popup control; and while it runs it can always
\* take a further step.
C1_PopupNeverRaises ==
    /\ op = "maybeCloseWelcomePopup" => result.status # "threw"
    /\ (op = "login" /\ result.status = "threw") =>
            /\ trace # << >>
            /\ NotOnPopupControl(Last(trace))
    /\ (result.status = "pending" /\ popup # "off") =>
            ENABLED (PopupIsVisible \/ PopupThenStep \/ PopupCatch \/ PopupReturn)

\* The popup was visible, the click went through, the wait-until-hidden
\* failed, and the operation returned normally.
C1_Witness ==
    /\ op = "maybeCloseWelcomePopup"
    /\ result = Returned
    /\ Len(trace) = 3
    /\ ~trace[3].out.ok

\* C2: in every method but popup dismissal, a failed navigation, wait, click
\* or fill is the last call the method issues, and the method throws that
\* very error.
C2_FailuresPropagate ==
    op \in PropagatingMethods =>
        \A i \in DOMAIN trace :
            (~trace[i].out.ok /\ NotOnPopupControl(trace[i])) =>
                /\ i = Len(trace)
                /\ result = Threw(trace[i].out.error)

\* login threw because filling the password field failed; the login button
\* was not clicked.
C2_Witness ==
    /\ op = "login"
    /\ result.status = "threw"
    /\ trace # << >>
    /\ IsCall(Last(trace), "fill", "passwordInput")

\* The calls of a successful login that follow popup dismissal.
AfterPopup(a) ==
    << [kind |-> "toBeVisible", target |-> "loginTab", value |-> ""],
       [kind |-> "click", target |-> "loginTab", value |-> ""],
       [kind |-> "toBeVisible", target |-> "emailInput", value |-> ""],
       [kind |-> "toBeVisible", target |-> "passwordInput", value |-> ""],
       [kind |-> "fill", target |-> "emailInput", value |-> a.email],
       [kind |-> "fill", target |-> "passwordInput", value |-> a.password],
       [kind |-> "click", target |-> "loginButton", value |-> ""] >>

What(t) == [kind |-> t.kind, target |-> t.target, value |-> t.value]

\* C3: a login that returned has issued, in this order: the navigation to
\* /login (waiting for domcontentloaded), the popup dismissal (one to three
\* calls on the popup control, the visibility check first), the wait for the
\* tab, the click on the tab, the wait for the email field, the wait for the
\* password field, the fill of the email field with the email, the fill of
\* the password field with the password, the click on the login button, and
\* nothing after it.
C3_LoginOrder ==
    (op = "login" /\ result = Returned) =>
        \E n \in 1..3 :
            /\ Len(trace) = 1 + n + 7
            /\ Call(trace[1]) =
                 [kind |-> "goto", target |-> "/login",
                  opt |-> "domcontentloaded", value |-> ""]
            /\ trace[2].kind = "isVisible"
            /\ \A i \in 2..(1 + n) : OnPopupControl(trace[i])
            /\ \A j \in 1..7 : What(trace[1 + n + j]) = AfterPopup(args)[j]
            /\ IsCall(Last(trace), "click", "loginButton")

\* A login that returned after dismissing a visible popup.
C3_Witness ==
    /\ op = "login"
    /\ result = Returned
    /\ Len(trace) = 11
    /\ args.email = "user@example.com"

\* C4: when a call on the popup control fails during login, login does not
\* throw that error; once dismissal is over exactly one warning has been
\* logged, carrying that error's message; and login goes on with the wait for
\* the login tab, as it does when the popup is absent.
C4_PopupFailureSwallowed ==
    op = "login" =>
        /\ \A i \in DOMAIN trace :
              (~trace[i].out.ok /\ OnPopupControl(trace[i])) =>
                /\ result.status = "threw" => i < Len(trace)
                /\ popup = "off" =>
                     log = << [level |-> "warn",
                               msg |-> "Welcome popup handling failed",
                               error |-> trace[i].out.error.message] >>
                /\ (popup = "off" /\ i = Len(trace)) =>
                     (result = Pending /\ pc = 3)
                /\ i < Len(trace) =>
                     /\ IsCall(trace[i + 1], "toBeVisible", "loginTab")
                     /\ trace[i + 1].opt = MEDIUM
        /\ (\A i \in DOMAIN trace : trace[i].out.ok \/ NotOnPopupControl(trace[i]))
              => log = << >>
        \* the popup absent: the same continuation
        /\ \A i \in DOMAIN trace :
              (trace[i].kind = "isVisible" /\ trace[i].out.value = "false") =>
                /\ (popup = "off" /\ i = Len(trace)) => (result = Pending /\ pc = 3)
                /\ i < Len(trace) => IsCall(trace[i + 1], "toBeVisible", "loginTab")

\* The click on the popup control failed, and login still ran to its end.
C4_Witness ==
    /\ op = "login"
    /\ result = Returned
    /\ Len(trace) = 10
    /\ ~trace[3].out.ok
    /\ Len(log) = 1

IsDismissStep(t) == OnPopupControl(t) /\ t.kind \in {"click", "toBeHidden"}
NotDismissStep(t) == ~IsDismissStep(t)

PopupSeen(tr, v) ==
    /\ Len(tr) >= 2
    /\ tr[2].kind = "isVisible"
    /\ tr[2].out.value = v

\* Two logins in succession, both over, same arguments, the popup visible in
\* the first and not visible in the second, the session answering every
\* other call alike.
TwoLogins ==
    /\ prev.valid
    /\ op = "login"
    /\ result.status # "pending"
    /\ args = prev.args
    /\ PopupSeen(prev.trace, "true")
    /\ PopupSeen(trace, "false")
    /\ Answers(SelectSeq(prev.trace, NotOnPopupControl))
         = Answers(SelectSeq(trace, NotOnPopupControl))

\* C5: of two such logins the second issues the calls of the first without
\* the click on the popup control and its wait-until-hidden, issues neither
\* of these two itself, and ends as the first did.
C5_SecondLoginSkipsDismiss ==
    TwoLogins =>
        /\ Calls(trace) = Calls(SelectSeq(prev.trace, NotDismissStep))
        /\ \A i \in DOMAIN trace : NotDismissStep(trace[i])
        /\ result = prev.result

\* Both logins returned; the first clicked the popup away.
C5_Witness ==
    /\ TwoLogins
    /\ result = Returned
    /\ Len(prev.trace) = 11
    /\ Len(trace) = 9

IsWait(t) == t.kind \in {"toBeVisible", "toBeHidden"}

\* C6 as stated: the password wait of login is the only wait without an
\* explicit timeout; every other wait of the component has MEDIUM.
C6_OnlyLoginPasswordWaitUnbounded ==
    \A i \in DOMAIN trace :
        IsWait(trace[i]) =>
            IF op = "login" /\ trace[i].target = "passwordInput"
            THEN trace[i].opt = DefaultTimeout
            ELSE trace[i].opt = MEDIUM

\* C6: the waits without an explicit timeout are the password wait of login
\* and the email and password waits of expectStillOnLoginPage; every other
\* wait of the component has the MEDIUM timeout.
C6_UnboundedWaits ==
    \A i \in DOMAIN trace :
        IsWait(trace[i]) =>
            IF \/ op = "login" /\ trace[i].target = "passwordInput"
               \/ op = "expectStillOnLoginPage"
                    /\ trace[i].target \in {"emailInput", "passwordInput"}
            THEN trace[i].opt = DefaultTimeout
            ELSE trace[i].opt = MEDIUM

\* login has issued its password wait, after two waits with MEDIUM.
C6_Witness ==
    /\ op = "login"
    /\ \E i \in DOMAIN trace : IsCall(trace[i], "toBeVisible", "passwordInput")
    /\ \E i \in DOMAIN trace : IsCall(trace[i], "toBeHidden", "startShoppingButton")

\* C7: after construction and before the first method is invoked the session
\* has seen no call, nothing was logged, and nothing was thrown.
C7_ConstructionNoIO ==
    (constructed /\ op = "none") =>
        /\ trace = << >>
        /\ log = << >>
        /\ result = New

\* The object is constructed and no method was invoked yet.
C7_Witness == constructed /\ op = "none"

StillOnLoginPageChecks == << "loginTab", "emailInput", "passwordInput" >>

\* C8: expectStillOnLoginPage waits for the tab, the email field and the
\* password field, in this order; it returns only after all three were seen
\* visible; a wait that fails is the last one made and the method throws.
C8_StillOnLoginPage ==
    op = "expectStillOnLoginPage" =>
        /\ Len(trace) <= 3
        /\ \A i \in DOMAIN trace :
              /\ IsCall(trace[i], "toBeVisible", StillOnLoginPageChecks[i])
              /\ ~trace[i].out.ok => (i = Len(trace) /\ result.status = "threw")
        /\ result = Returned =>
              (Len(trace) = 3 /\ \A i \in 1..3 : trace[i].out.ok)
        /\ result.status = "threw" => ~Last(trace).out.ok

\* The tab was visible, the email field was not: the password field was not
\* looked at.
C8_Witness ==
    /\ op = "expectStillOnLoginPage"
    /\ result.status = "threw"
    /\ Len(trace) = 2

PopupOver == popup = "off"

\* C9 as stated: a check that returned true is followed by the click and the
\* click by the wait-until-hidden.
C9_ClickAlwaysFollowedByWait ==
    \A i \in DOMAIN trace :
        (trace[i].kind = "isVisible" /\ trace[i].out.value = "true" /\ PopupOver) =>
            /\ i + 2 <= Len(trace)
            /\ IsCall(trace[i + 1], "click", "startShoppingButton")
            /\ IsCall(trace[i + 2], "toBeHidden", "startShoppingButton")

\* C9: the popup control is clicked only right after a visibility check that
\* returned true; a check that returned false is followed by no click, no
\* wait-until-hidden and no warning; after a check that returned true the
\* control is clicked, and a click that went through is followed by the
\* wait-until-hidden on the same control.
C9_ClickOnlyWhenVisible ==
    \A i \in DOMAIN trace :
        /\ IsDismissStep(trace[i]) =>
              /\ i > 1
              /\ OnPopupControl(trace[i - 1])
              /\ trace[i - 1].out.ok
        /\ IsCall(trace[i], "click", "startShoppingButton") =>
              (trace[i - 1].kind = "isVisible" /\ trace[i - 1].out.value = "true")
        /\ (trace[i].kind = "isVisible" /\ trace[i].out.value = "false") =>
              /\ \A j \in DOMAIN trace : NotDismissStep(trace[j])
              /\ log = << >>
        /\ (trace[i].kind = "isVisible" /\ trace[i].out.value = "true" /\ PopupOver) =>
              /\ i + 1 <= Len(trace)
              /\ IsCall(trace[i + 1], "click", "startShoppingButton")
              /\ trace[i + 1].out.ok =>
                    /\ i + 2 <= Len(trace)
                    /\ IsCall(trace[i + 2], "toBeHidden", "startShoppingButton")
                    /\ trace[i + 2].opt = MEDIUM

\* The check returned true, the click went through and the wait was issued.
C9_Witness ==
    /\ op = "maybeCloseWelcomePopup"
    /\ result = Returned
    /\ Len(trace) = 3
    /\ trace[2].out.ok

\* C10: within one invocation no call (a kind of call on a target) is issued
\* twice, and no call follows a failed call outside popup dismissal.
C10_NoRetry ==
    /\ \A i, j \in DOMAIN trace :
          (trace[i].kind = trace[j].kind /\ trace[i].target = trace[j].target)
              => i = j
    /\ \A i \in DOMAIN trace :
          (~trace[i].out.ok /\ i < Len(trace)) => OnPopupControl(trace[i])

\* login stopped at a wait that timed out.
C10_Witness ==
    /\ op = "login"
    /\ result.status = "threw"
    /\ trace # << >>
    /\ IsCall(Last(trace), "toBeVisible", "emailInput")

====
